---- MODULE Spec2Model ----
(***************************************************************************)
(* rad-rpc 0.3.0: a JSON-RPC gateway ("run", "show") in front of one       *)
(* shared in-memory ledger guarded by a parking_lot RwLock.                *)
(*                                                                         *)
(* The model follows src/src/core.rs, src/src/config.rs and                *)
(* src/src/main.rs.  Each worker of the HTTP server's pool is a process    *)
(* that serves one request at a time; a request is cut into steps at the   *)
(* lock acquisitions and at the store accesses made inside the lock scope. *)
(***************************************************************************)
EXTENDS Integers, Sequences, FiniteSets, TLC

(* ---------------------------------------------------------------- bounds *)
NumProcs == 2
MaxSigners == 2

Procs == 1..NumProcs

(* ---------------------------------------------------- options and values *)
None == <<>>
Some(x) == <<x>>
IsSome(o) == o # <<>>
Unwrap(o) == o[1]

SeqToSet(s) == {s[k] : k \in 1..Len(s)}

RECURSIVE SetToSeqs(_)
(* every iteration order of a HashSet *)
SetToSeqs(S) ==
    IF S = {} THEN {<<>>}
    ELSE UNION {{<<x>> \o t : t \in SetToSeqs(S \ {x})} : x \in S}

(* ------------------------------------------------------------- addresses *)
Package(n) == [variant |-> "Package", n |-> n]
Component(n) == [variant |-> "Component", n |-> n]
ResourceDef(n) == [variant |-> "ResourceDef", n |-> n]

is_package(a) == a.variant = "Package"
is_component(a) == a.variant = "Component"
is_resource_def(a) == a.variant = "ResourceDef"

AddressStrings == {"package_2", "component_1", "component_2", "resource_1",
                   "zzz"}

(* Address::from_str: Some(address) or None for a malformed string *)
Address_from_str(s) ==
    CASE s = "package_1" -> Some(Package(1))
      [] s = "package_2" -> Some(Package(2))
      [] s = "component_1" -> Some(Component(1))
      [] s = "component_2" -> Some(Component(2))
      [] s = "resource_1" -> Some(ResourceDef(1))
      [] OTHER -> None

Address_to_string(a) ==
    CASE a = Package(1) -> "package_1"
      [] a = Package(2) -> "package_2"
      [] a = Component(1) -> "component_1"
      [] a = Component(2) -> "component_2"
      [] a = ResourceDef(1) -> "resource_1"
      [] OTHER -> "?"

(* ---------------------------------------------------------- signer keys *)
SignerStrings == {"04ab", "nokey"}

(* EcdsaPublicKey::from_str *)
EcdsaPublicKey_from_str(s) == IF s = "04ab" THEN Some(1) ELSE None

(* the signer lists of the requests: MaxSigners keys, all good or with one *)
(* bad key at any position                                                 *)
SignerLists ==
    {[k \in 1..MaxSigners |-> "04ab"]} \cup
    {[k \in 1..MaxSigners |-> IF k = bad THEN "nokey" ELSE "04ab"] :
        bad \in 1..MaxSigners}

(* ------------------------------------------------------ encoded values  *)
(* A raw blob either fails validation or decodes to a value tree `dom`     *)
(* together with the lazy-map ids and vault ids it references.            *)
Blob(d, ms, vs) == [valid |-> TRUE, dom |-> d, lazy_maps |-> ms, vaults |-> vs]
BadBlob == [valid |-> FALSE, dom |-> 0, lazy_maps |-> <<>>, vaults |-> <<>>]

(* validate_data: None stands for Err(DataValidationError) *)
validate_data(b) ==
    IF b.valid
    THEN Some([dom |-> b.dom, lazy_maps |-> b.lazy_maps, vaults |-> b.vaults,
               raw |-> b])
    ELSE None

(* formatter::format_value with empty lazy-map and vault tables *)
format_value(dom) == <<"display", dom>>

(* ------------------------------------------------------- JSON-RPC values *)
JsonString(s) == [type |-> "String", content |-> <<s>>]
JsonObject(r) == [type |-> "Object", content |-> <<r>>]
NoValue == [type |-> "Null", content |-> <<>>]

Ok(v) == [ok |-> TRUE, kind |-> "Ok", code |-> 0, message |-> "", value |-> v]

(* jsonrpc_core::ErrorCode::code() *)
ErrorCode_ParseError == -32700
ErrorCode_InvalidRequest == -32600
ErrorCode_ServerError(code) == code

Error(kind, code, msg) ==
    [ok |-> FALSE, kind |-> kind, code |-> code, message |-> msg,
     value |-> NoValue]

internal_err(msg, code) ==
    Error("internal_err", ErrorCode_ServerError(code), msg)

not_found_err(msg) == Error("not_found_err", ErrorCode_ServerError(1), msg)

parse_err == Error("parse_err", ErrorCode_ParseError, "Can't parse parameters")

ecdsa_err == Error("ecdsa_err", ErrorCode_ParseError, "Can't parse ecdsa key")

transaction_validation_err ==
    Error("transaction_validation_err", ErrorCode_ServerError(666),
          "Transaction validation error")

transaction_execution_error ==
    Error("transaction_execution_error", ErrorCode_ServerError(33),
          "Transaction execution error")

transaction_compile_err ==
    Error("transaction_compile_err", ErrorCode_InvalidRequest,
          "Transaction compile error")

(* a handler that unwinds: the worker sends no JSON-RPC response *)
Panicked == [ok |-> FALSE, kind |-> "panic", code |-> 0, message |-> "",
             value |-> NoValue]

NoResponse == [ok |-> FALSE, kind |-> "none", code |-> 0, message |-> "",
               value |-> NoValue]

(* ------------------------------------------------------------ the ledger *)
PackageIds == 1..2
ComponentIds == 1..2
Mids == 1..2
Vids == 1..2
ResourceIds == 1..1
NfKeys == 1..2

Fungible == [kind |-> "Fungible", keys |-> <<>>]
NonFungible(keys) == [kind |-> "NonFungible", keys |-> keys]

(* InMemorySubstateStore::with_bootstrap(): the substates `show` can reach *)
Bootstrap ==
    [packages |-> [n \in PackageIds |-> IF n = 1 THEN Some(3) ELSE None],
     components |->
        [n \in ComponentIds |->
            IF n = 1
            THEN Some([package_address |-> Package(1),
                       blueprint_name |-> "System",
                       state |-> Blob(7, <<1>>, <<1>>)])
            ELSE None],
     lazy_maps |->
        [k \in ComponentIds \X Mids |->
            CASE k = <<1, 1>> ->
                    Some({<<Blob(1, <<>>, <<>>), Blob(2, <<1, 2>>, <<>>)>>})
              [] k = <<1, 2>> ->
                    Some({<<Blob(3, <<>>, <<>>), Blob(4, <<>>, <<2>>)>>})
              [] OTHER -> None],
     vaults |->
        [k \in ComponentIds \X Vids |->
            CASE k = <<1, 1>> ->
                    Some([amount |-> 10, resource_address |-> ResourceDef(1),
                          total_supply |-> Fungible])
              [] k = <<1, 2>> ->
                    Some([amount |-> 1, resource_address |-> ResourceDef(1),
                          total_supply |-> NonFungible(<<1>>)])
              [] OTHER -> None],
     resource_defs |->
        [n \in ResourceIds |-> Some([name |-> Some("Radix"),
                                     symbol |-> None])],
     non_fungibles |->
        [k \in ResourceIds \X NfKeys |->
            Some([immutable_data |-> Blob(5, <<>>, <<>>),
                  mutable_data |-> Blob(6, <<>>, <<>>)])]]

get_package(ledger, address) == ledger.packages[address.n]
get_component(ledger, address) == ledger.components[address.n]
get_lazy_map(ledger, address, mid) == ledger.lazy_maps[<<address.n, mid>>]
get_vault(ledger, address, vid) == ledger.vaults[<<address.n, vid>>]
get_resource_def(ledger, address) == ledger.resource_defs[address.n]
get_non_fungible(ledger, address, key) ==
    ledger.non_fungibles[<<address.n, key>>]

(* one substate write of the engine's commit *)
Put(field, key, val) == [field |-> field, key |-> key, val |-> val]

ApplyPut(ledger, put) ==
    [ledger EXCEPT ![put.field] = [@ EXCEPT ![put.key] = put.val]]

RECURSIVE ApplyPuts(_, _)
ApplyPuts(ledger, puts) ==
    IF puts = <<>> THEN ledger
    ELSE ApplyPuts(ApplyPut(ledger, Head(puts)), Tail(puts))

(* ------------------------------------------ manifests and the engine    *)
Manifests == {"garbage", "invalid", "failing", "publish_a", "publish_b"}

(* transaction_manifest::compile(..).ok() *)
transaction_manifest_compile(manifest) ==
    IF manifest = "garbage" THEN None
    ELSE Some([instructions |-> <<manifest>>])

(* the substate writes the engine commits for a successful transaction *)
Writes(manifest) ==
    CASE manifest = "publish_a" ->
            <<Put("packages", 2, Some(0)),
              Put("components", 2,
                  Some([package_address |-> Package(2),
                        blueprint_name |-> "A",
                        state |-> BadBlob]))>>
      [] manifest = "publish_b" ->
            <<Put("packages", 2, Some(2)),
              Put("components", 2,
                  Some([package_address |-> Package(2),
                        blueprint_name |-> "B",
                        state |-> Blob(8, <<>>, <<>>)]))>>
      [] OTHER -> <<>>

(* TransactionExecutor::run: None is Err(_), the transaction was not run;  *)
(* otherwise a receipt, whose writes are committed only when result is Ok  *)
executor_run(transaction) ==
    LET m == transaction.instructions[1] IN
    CASE m = "invalid" -> None
      [] m = "failing" ->
            Some([result |-> FALSE, outputs |-> <<9>>, new_entities |-> <<>>])
      [] m = "publish_a" ->
            Some([result |-> TRUE, outputs |-> <<1>>,
                  new_entities |-> <<Package(2), Component(2)>>])
      [] OTHER ->
            Some([result |-> TRUE, outputs |-> <<2, 1>>,
                  new_entities |-> <<ResourceDef(1), Component(2),
                                     Package(2), Component(1),
                                     Component(2)>>])

(* the store after the whole transaction of a run, applied at once *)
Transact(ledger, manifest) ==
    LET t == transaction_manifest_compile(manifest) IN
    IF ~IsSome(t) THEN ledger
    ELSE LET r == executor_run(Unwrap(t)) IN
         IF IsSome(r) /\ Unwrap(r).result
         THEN ApplyPuts(ledger, Writes(manifest))
         ELSE ledger

(* ----------------------------------------------------- the state dump    *)
(* serde_json Map::insert: a later value replaces an equal key *)
JsonInsert(json_map, k, v) == {e \in json_map : e[1] # k} \cup {<<k, v>>}

RECURSIVE DumpEntries_ValuesOnly(_, _)
(* a for loop that collects the references of the values only *)
DumpEntries_ValuesOnly(entries, acc) ==
    IF entries = <<>> THEN [tag |-> "Ok"] @@ acc
    ELSE LET k_validated == validate_data(Head(entries)[1])
             v_validated == validate_data(Head(entries)[2])
         IN  IF ~IsSome(k_validated) \/ ~IsSome(v_validated)
             THEN [tag |-> "Err"] @@ acc
             ELSE LET k == Unwrap(k_validated)
                      v == Unwrap(v_validated)
                  IN DumpEntries_ValuesOnly(Tail(entries),
                       [maps |-> acc.maps \o v.lazy_maps,
                        vaults |-> acc.vaults \o v.vaults,
                        json |-> JsonInsert(acc.json, format_value(k.dom),
                                            format_value(v.dom))])

RECURSIVE DumpEntries(_, _)
(* the for loop of dump_lazy_map over the entries in iteration order *)
DumpEntries(entries, acc) ==
    IF entries = <<>> THEN [tag |-> "Ok"] @@ acc
    ELSE LET k_validated == validate_data(Head(entries)[1])
             v_validated == validate_data(Head(entries)[2])
         IN  IF ~IsSome(k_validated) \/ ~IsSome(v_validated)
             THEN [tag |-> "Err"] @@ acc
             ELSE LET k == Unwrap(k_validated)
                      v == Unwrap(v_validated)
                  IN DumpEntries(Tail(entries),
                       [maps |-> acc.maps \o k.lazy_maps \o v.lazy_maps,
                        vaults |-> acc.vaults \o k.vaults \o v.vaults,
                        json |-> JsonInsert(acc.json, format_value(k.dom),
                                            format_value(v.dom))])

EmptyDump == [maps |-> <<>>, vaults |-> <<>>, json |-> {}]

(* dump_lazy_map; `order` is the iteration order of the map's HashMap *)
dump_lazy_map(address, mid, ledger, order) ==
    LET map == get_lazy_map(ledger, address, mid) IN
    IF ~IsSome(map) THEN [tag |-> "Panic"] @@ EmptyDump
    ELSE DumpEntries(order, EmptyDump)

(* the iteration orders of lazy map `mid` *)
MapOrders(address, mid, ledger) ==
    LET map == get_lazy_map(ledger, address, mid) IN
    IF IsSome(map) THEN SetToSeqs(Unwrap(map)) ELSE {<<>>}

RECURSIVE DumpNonFungibles(_, _, _, _)
(* the inner loop of dump_resources over the keys of one vault *)
DumpNonFungibles(resource_address, keys, ledger, vec_res) ==
    IF keys = <<>> THEN [tag |-> "Ok", vec |-> vec_res]
    ELSE LET non_fungible ==
                 get_non_fungible(ledger, resource_address, Head(keys))
         IN  IF ~IsSome(non_fungible) THEN [tag |-> "Panic", vec |-> vec_res]
             ELSE LET immutable_data ==
                          validate_data(Unwrap(non_fungible).immutable_data)
                      mutable_data ==
                          validate_data(Unwrap(non_fungible).mutable_data)
                  IN  IF ~IsSome(immutable_data) \/ ~IsSome(mutable_data)
                      THEN [tag |-> "Panic", vec |-> vec_res]
                      ELSE DumpNonFungibles(resource_address, Tail(keys),
                             ledger,
                             Append(vec_res,
                               [entry |-> "NON_FUNGIBLE",
                                id |-> Head(keys),
                                immutable_data |-> Unwrap(immutable_data).raw,
                                mutable_data |-> Unwrap(mutable_data).raw]))

RECURSIVE dump_resources(_, _, _, _)
(* dump_resources; `vaults` is the HashSet of vault ids in iteration order *)
dump_resources(address, vaults, ledger, vec_res) ==
    IF vaults = <<>> THEN [tag |-> "Ok", vec |-> vec_res]
    ELSE LET vault == get_vault(ledger, address, Head(vaults)) IN
         IF ~IsSome(vault) THEN [tag |-> "Panic", vec |-> vec_res]
         ELSE LET resource_address == Unwrap(vault).resource_address
                  resource_def == get_resource_def(ledger, resource_address)
              IN
              IF ~IsSome(resource_def) THEN [tag |-> "Panic", vec |-> vec_res]
              ELSE LET pushed ==
                           Append(vec_res,
                             [entry |-> "VAULT",
                              amount |-> Unwrap(vault).amount,
                              resource_def |->
                                  Address_to_string(resource_address),
                              name |-> Unwrap(resource_def).name,
                              symbol |-> Unwrap(resource_def).symbol])
                       inner ==
                           IF Unwrap(vault).total_supply.kind = "NonFungible"
                           THEN DumpNonFungibles(resource_address,
                                    Unwrap(vault).total_supply.keys, ledger,
                                    pushed)
                           ELSE [tag |-> "Ok", vec |-> pushed]
                   IN  IF inner.tag = "Panic" THEN inner
                       ELSE dump_resources(address, Tail(vaults), ledger,
                                           inner.vec)

(* ----------------------------------------------------------- requests   *)
RECURSIVE ParseSigners_SkippingBad(_, _)
(* a signer loop that drops a bad key instead of returning *)
ParseSigners_SkippingBad(signers, signatures) ==
    IF signers = <<>> THEN Some(signatures)
    ELSE LET key == EcdsaPublicKey_from_str(Head(signers)) IN
         IF IsSome(key)
         THEN ParseSigners_SkippingBad(Tail(signers),
                                       Append(signatures, Unwrap(key)))
         ELSE IF signatures = <<>> THEN None
              ELSE ParseSigners_SkippingBad(Tail(signers), signatures)

RECURSIVE ParseSigners(_, _)
(* the for loop of run over params.signers: None at the first bad key *)
ParseSigners(signers, signatures) ==
    IF signers = <<>> THEN Some(signatures)
    ELSE LET key == EcdsaPublicKey_from_str(Head(signers)) IN
         IF IsSome(key)
         THEN ParseSigners(Tail(signers), Append(signatures, Unwrap(key)))
         ELSE None

(* Params::parse().ok(): None for a parameter object of the wrong shape;   *)
(* every manifest comes with good signers, and every signer list with a   *)
(* manifest that would change the store                                    *)
RunParams == {None} \cup
    {Some([manifest |-> m, signers |-> [k \in 1..MaxSigners |-> "04ab"]]) :
        m \in Manifests} \cup
    {Some([manifest |-> "publish_a", signers |-> s]) : s \in SignerLists}

ShowParams == {None} \cup {Some([address |-> a]) : a \in AddressStrings}

NoRequest == [method |-> "none", params |-> None]

(* the locals of a handler *)
NoLocals ==
    [signatures |-> <<>>, compile_err |-> FALSE, receipt_opt |-> None,
     receipt |-> None, pending |-> <<>>,
     address |-> Package(1), bytes |-> 0,
     not_found |-> FALSE, internal_error |-> FALSE, return_vec |-> <<>>,
     queue |-> <<>>, i |-> 0, maps_visited |-> {}, vaults_found |-> {},
     lazy_maps |-> <<>>]

(* what a request has done so far: lock acquired, the store as it was when *)
(* the write guard it still holds was taken, engine invoked, what each of  *)
(* its lookups found, whether the component state was handed to            *)
(* validate_data, the ids handed to get_lazy_map in order, and whether     *)
(* dump_resources was called                                               *)
NoTrace ==
    [acquired |-> FALSE, pre |-> None, engine |-> FALSE, seen |-> {},
     decoded |-> FALSE, fetched |-> <<>>, resources |-> FALSE]

(* ------------------------------------------------------------- state    *)
VARIABLES
    store,      \* CONFIG's ledger, the one InMemorySubstateStore
    writers,    \* requests holding CONFIG's write guard
    readers,    \* requests holding a read guard of CONFIG
    pc,         \* where each worker is in its handler
    req,        \* the request each worker is serving
    resp,       \* the response of that request
    loc,        \* the handler's local variables
    serial,     \* the transactions of the runs applied one at a time, in
                \* the order the runs obtained write access
    trace       \* what each request has done so far

vars == <<store, writers, readers, pc, req, resp, loc, serial, trace>>

Init ==
    /\ store = Bootstrap
    /\ writers = {}
    /\ readers = {}
    /\ pc = [p \in Procs |-> "idle"]
    /\ req = [p \in Procs |-> NoRequest]
    /\ resp = [p \in Procs |-> NoResponse]
    /\ loc = [p \in Procs |-> NoLocals]
    /\ serial = Bootstrap
    /\ trace = [p \in Procs |-> NoTrace]

(* a write lock that does not wait for the readers to leave *)
CanWrite_IgnoringReaders == writers = {}

(* a write lock that does not wait for another writer to leave *)
CanWrite_IgnoringWriters == readers = {}

(* RwLock::write is granted when no guard of either kind is held *)
CanWrite == writers = {} /\ readers = {}

(* a read lock that does not wait for the writer to leave *)
CanRead_DuringWrite == TRUE

(* RwLock::read is granted when no write guard is held *)
CanRead == writers = {}

(* the store holds some but not all writes of a transaction in progress *)
Torn ==
    \E q \in writers :
        /\ IsSome(trace[q].pre)
        /\ store # Unwrap(trace[q].pre)
        /\ store # Transact(Unwrap(trace[q].pre),
                            Unwrap(req[q].params).manifest)

(* request p looks something up in the store *)
Looked(p) ==
    [trace[p] EXCEPT !.seen = @ \cup {[store |-> store, torn |-> Torn,
                                       serial |-> serial,
                                       guarded |-> p \in readers]}]

(* ---------------------------------------------------------------- run   *)
(* io "run": parameter parsing, then run() up to CONFIG.write() *)
rpc_run(p) ==
    /\ pc[p] = "idle"
    /\ \E params \in RunParams :
        /\ req' = [req EXCEPT ![p] = [method |-> "run", params |-> params]]
        /\ IF ~IsSome(params)
           THEN /\ resp' = [resp EXCEPT ![p] = parse_err]
                /\ pc' = [pc EXCEPT ![p] = "done"]
                /\ loc' = loc
           ELSE LET signatures == ParseSigners(Unwrap(params).signers, <<>>)
                IN  IF ~IsSome(signatures)
                    THEN /\ resp' = [resp EXCEPT ![p] = ecdsa_err]
                         /\ pc' = [pc EXCEPT ![p] = "done"]
                         /\ loc' = loc
                    ELSE /\ resp' = resp
                         /\ pc' = [pc EXCEPT ![p] = "run_write"]
                         /\ loc' = [loc EXCEPT ![p].signatures =
                                        Unwrap(signatures)]
    /\ UNCHANGED <<store, writers, readers, serial, trace>>

(* CONFIG.write() *)
run_write(p) ==
    /\ pc[p] = "run_write"
    /\ CanWrite
    /\ writers' = writers \cup {p}
    /\ serial' = Transact(serial, Unwrap(req[p].params).manifest)
    /\ trace' = [trace EXCEPT ![p].acquired = TRUE, ![p].pre = Some(store)]
    /\ pc' = [pc EXCEPT ![p] = "run_closure"]
    /\ UNCHANGED <<store, readers, req, resp, loc>>

(* the closure of run up to the engine's commit *)
run_closure(p) ==
    /\ pc[p] = "run_closure"
    /\ LET transaction ==
               transaction_manifest_compile(Unwrap(req[p].params).manifest)
       IN  IF ~IsSome(transaction)
           THEN /\ loc' = [loc EXCEPT ![p].compile_err = TRUE]
                /\ pc' = [pc EXCEPT ![p] = "run_exit"]
                /\ trace' = trace
           ELSE LET ended ==
                        [instructions |->
                            Append(Unwrap(transaction).instructions,
                                   [End |-> loc[p].signatures])]
                    receipt == executor_run(ended)
                IN  /\ trace' = [trace EXCEPT ![p].engine = TRUE]
                    /\ IF ~IsSome(receipt)
                       THEN /\ loc' = loc
                            /\ pc' = [pc EXCEPT ![p] = "run_exit"]
                       ELSE /\ loc' = [loc EXCEPT
                                 ![p].receipt = receipt,
                                 ![p].pending =
                                     IF Unwrap(receipt).result
                                     THEN Writes(ended.instructions[1])
                                     ELSE <<>>]
                            /\ pc' = [pc EXCEPT ![p] = "run_commit"]
    /\ UNCHANGED <<store, writers, readers, req, resp, serial>>

(* executor.run committing the transaction, one substate write a step,     *)
(* and returning its receipt after the last one                            *)
run_commit(p) ==
    /\ pc[p] = "run_commit"
    /\ store' = IF loc[p].pending # <<>>
                THEN ApplyPut(store, Head(loc[p].pending))
                ELSE store
    /\ IF Len(loc[p].pending) > 1
       THEN /\ loc' = [loc EXCEPT ![p].pending = Tail(@)]
            /\ pc' = pc
       ELSE /\ loc' = [loc EXCEPT ![p].pending = <<>>,
                                  ![p].receipt_opt = loc[p].receipt]
            /\ pc' = [pc EXCEPT ![p] = "run_exit"]
    /\ UNCHANGED <<writers, readers, req, resp, serial, trace>>

(* .map(|x| x.to_string()).collect() *)
ToStrings(es) == [k \in 1..Len(es) |-> Address_to_string(es[k])]

(* a receipt json whose component list takes everything but packages *)
RunResponse_LooseFilter(receipt) ==
    JsonObject(
      [packages |-> ToStrings(SelectSeq(receipt.new_entities, is_package)),
       components |->
           ToStrings(SelectSeq(receipt.new_entities,
                               LAMBDA x : ~is_package(x))),
       resource_defs |->
           ToStrings(SelectSeq(receipt.new_entities, is_resource_def)),
       outputs |-> [k \in 1..Len(receipt.outputs) |->
                        format_value(receipt.outputs[k])]])

(* the json of a successful receipt *)
RunResponse(receipt) ==
    JsonObject(
      [packages |-> ToStrings(SelectSeq(receipt.new_entities, is_package)),
       components |-> ToStrings(SelectSeq(receipt.new_entities, is_component)),
       resource_defs |->
           ToStrings(SelectSeq(receipt.new_entities, is_resource_def)),
       outputs |-> [k \in 1..Len(receipt.outputs) |->
                        format_value(receipt.outputs[k])]])

(* a run that forgets the compile_err flag *)
RunResult_NoCompileCheck(l) ==
    IF IsSome(l.receipt_opt)
    THEN IF Unwrap(l.receipt_opt).result
         THEN Ok(RunResponse(Unwrap(l.receipt_opt)))
         ELSE transaction_execution_error
    ELSE transaction_validation_err

(* a run with the two engine errors exchanged *)
RunResult_Swapped(l) ==
    IF l.compile_err THEN transaction_compile_err
    ELSE IF IsSome(l.receipt_opt)
         THEN IF Unwrap(l.receipt_opt).result
              THEN Ok(RunResponse(Unwrap(l.receipt_opt)))
              ELSE transaction_validation_err
         ELSE transaction_execution_error

(* what run returns once the write guard is gone *)
RunResult(l) ==
    IF l.compile_err THEN transaction_compile_err
    ELSE IF IsSome(l.receipt_opt)
         THEN IF Unwrap(l.receipt_opt).result
              THEN Ok(RunResponse(Unwrap(l.receipt_opt)))
              ELSE transaction_execution_error
         ELSE transaction_validation_err

(* the write guard is dropped, then run maps the outcome to a response *)
run_exit(p) ==
    /\ pc[p] = "run_exit"
    /\ writers' = writers \ {p}
    /\ resp' = [resp EXCEPT ![p] = RunResult(loc[p])]
    /\ trace' = [trace EXCEPT ![p].pre = None]
    /\ pc' = [pc EXCEPT ![p] = "done"]
    /\ UNCHANGED <<store, readers, req, loc, serial>>

(* --------------------------------------------------------------- show   *)
(* io "show": parameter parsing, then show() up to the dispatch *)
rpc_show(p) ==
    /\ pc[p] = "idle"
    /\ \E params \in ShowParams :
        /\ req' = [req EXCEPT ![p] = [method |-> "show", params |-> params]]
        /\ LET address == IF IsSome(params)
                          THEN Address_from_str(Unwrap(params).address)
                          ELSE None
           IN  IF ~IsSome(address) \/ is_resource_def(Unwrap(address))
               THEN /\ resp' = [resp EXCEPT ![p] = parse_err]
                    /\ pc' = [pc EXCEPT ![p] = "done"]
                    /\ loc' = loc
               ELSE /\ resp' = resp
                    /\ pc' = [pc EXCEPT ![p] =
                                 IF is_package(Unwrap(address))
                                 THEN "dump_package_read"
                                 ELSE "dump_component_read"]
                    /\ loc' = [loc EXCEPT ![p].address = Unwrap(address)]
    /\ UNCHANGED <<store, writers, readers, serial, trace>>

(* dump_package: CONFIG.read() *)
dump_package_read(p) ==
    /\ pc[p] = "dump_package_read"
    /\ CanRead
    /\ readers' = readers \cup {p}
    /\ trace' = [trace EXCEPT ![p].acquired = TRUE]
    /\ pc' = [pc EXCEPT ![p] = "dump_package_closure"]
    /\ UNCHANGED <<store, writers, req, resp, loc, serial>>

(* dump_package: the closure under the read guard *)
dump_package_closure(p) ==
    /\ pc[p] = "dump_package_closure"
    /\ LET package == get_package(store, loc[p].address) IN
       loc' = [loc EXCEPT ![p].bytes =
                   IF IsSome(package) THEN Unwrap(package) ELSE 0]
    /\ trace' = [trace EXCEPT ![p] = Looked(p)]
    /\ pc' = [pc EXCEPT ![p] = "dump_package_exit"]
    /\ UNCHANGED <<store, writers, readers, req, resp, serial>>

(* a dump_package that takes an empty package for a found one *)
PackageResult_AnyLength(l) ==
    IF l.bytes >= 0 THEN Ok(JsonObject([bytes |-> l.bytes]))
    ELSE not_found_err("Package not found")

(* what dump_package returns *)
PackageResult(l) ==
    IF l.bytes > 0 THEN Ok(JsonObject([bytes |-> l.bytes]))
    ELSE not_found_err("Package not found")

(* dump_package: the read guard is dropped, then the response *)
dump_package_exit(p) ==
    /\ pc[p] = "dump_package_exit"
    /\ readers' = readers \ {p}
    /\ resp' = [resp EXCEPT ![p] = PackageResult(loc[p])]
    /\ pc' = [pc EXCEPT ![p] = "done"]
    /\ UNCHANGED <<store, writers, req, loc, serial, trace>>

(* a dump_component that goes on without taking the read guard *)
dump_component_read_unguarded(p) ==
    /\ pc[p] = "dump_component_read"
    /\ pc' = [pc EXCEPT ![p] = "dump_component_closure"]
    /\ UNCHANGED <<store, writers, readers, req, resp, loc, serial, trace>>

(* dump_component: CONFIG.read() and the flags *)
dump_component_read(p) ==
    /\ pc[p] = "dump_component_read"
    /\ CanRead
    /\ readers' = readers \cup {p}
    /\ trace' = [trace EXCEPT ![p].acquired = TRUE]
    /\ pc' = [pc EXCEPT ![p] = "dump_component_closure"]
    /\ UNCHANGED <<store, writers, req, resp, loc, serial>>

(* dump_component: the closure from get_component to the seeded queue *)
dump_component_closure(p) ==
    /\ pc[p] = "dump_component_closure"
    /\ LET component == get_component(store, loc[p].address) IN
       IF ~IsSome(component)
       THEN /\ loc' = [loc EXCEPT ![p].not_found = TRUE]
            /\ pc' = [pc EXCEPT ![p] = "dump_component_exit"]
       ELSE LET c == Unwrap(component)
                meta == [package_address |->
                             Address_to_string(c.package_address),
                         blueprint_name |-> c.blueprint_name]
                state_validated == validate_data(c.state)
            IN  IF ~IsSome(state_validated)
                THEN /\ loc' = [loc EXCEPT
                                  ![p].return_vec = <<meta>>,
                                  ![p].internal_error = TRUE]
                     /\ pc' = [pc EXCEPT ![p] = "dump_component_exit"]
                ELSE LET v == Unwrap(state_validated) IN
                     /\ loc' = [loc EXCEPT
                           ![p].return_vec =
                               <<meta, [state |-> format_value(v.dom)]>>,
                           ![p].queue = v.lazy_maps,
                           ![p].i = 0,
                           ![p].maps_visited = {},
                           ![p].vaults_found = SeqToSet(v.vaults),
                           ![p].lazy_maps = <<>>]
                     /\ pc' = [pc EXCEPT ![p] = "dump_component_loop"]
    /\ trace' = [trace EXCEPT ![p] =
                     [Looked(p) EXCEPT !.decoded =
                         IsSome(get_component(store, loc[p].address))]]
    /\ UNCHANGED <<store, writers, readers, req, resp, serial>>

(* a cursor that stays where it is *)
Advance_Stuck(l) == l.i

(* i += 1 *)
Advance(l) == l.i + 1

(* a visited check that never finds the id *)
Visited_Never(l, mid) == FALSE

(* maps_visited.insert(mid) returns false: the id was visited before *)
Visited(l, mid) == mid \in l.maps_visited

(* dump_component: one iteration of `while i < queue.len()` *)
dump_component_loop(p) ==
    /\ pc[p] = "dump_component_loop"
    /\ loc[p].i < Len(loc[p].queue)
    /\ LET mid == loc[p].queue[loc[p].i + 1] IN
       IF Visited(loc[p], mid)
       THEN /\ loc' = [loc EXCEPT ![p].i = Advance(loc[p])]
            /\ UNCHANGED <<pc, readers, resp, trace>>
       ELSE \E order \in MapOrders(loc[p].address, mid, store) :
            LET v == dump_lazy_map(loc[p].address, mid, store, order) IN
            /\ trace' = [trace EXCEPT ![p] =
                             [Looked(p) EXCEPT !.fetched = Append(@, mid)]]
            /\ CASE v.tag = "Ok" ->
                      /\ loc' = [loc EXCEPT
                            ![p].i = Advance(loc[p]),
                            ![p].maps_visited = @ \cup {mid},
                            ![p].lazy_maps = Append(@, v.json),
                            ![p].queue = @ \o v.maps,
                            ![p].vaults_found = @ \cup SeqToSet(v.vaults)]
                      /\ UNCHANGED <<pc, readers, resp>>
                 [] v.tag = "Err" ->
                      /\ loc' = [loc EXCEPT
                            ![p].i = Advance(loc[p]),
                            ![p].maps_visited = @ \cup {mid},
                            ![p].internal_error = TRUE]
                      /\ UNCHANGED <<pc, readers, resp>>
                 [] OTHER ->
                      \* get_lazy_map(..).unwrap() on None: the handler
                      \* unwinds and the guard is dropped on the way out
                      /\ loc' = [loc EXCEPT
                            ![p].i = Advance(loc[p]),
                            ![p].maps_visited = @ \cup {mid}]
                      /\ readers' = readers \ {p}
                      /\ resp' = [resp EXCEPT ![p] = Panicked]
                      /\ pc' = [pc EXCEPT ![p] = "done"]
    /\ UNCHANGED <<store, writers, req, serial>>

(* dump_component: the queue is exhausted, dump_resources is called *)
dump_component_resources(p) ==
    /\ pc[p] = "dump_component_loop"
    /\ loc[p].i >= Len(loc[p].queue)
    /\ \E vaults \in SetToSeqs(loc[p].vaults_found) :
       LET r == dump_resources(loc[p].address, vaults, store, <<>>) IN
       IF r.tag = "Ok"
       THEN /\ loc' = [loc EXCEPT ![p].return_vec = @ \o r.vec]
            /\ pc' = [pc EXCEPT ![p] = "dump_component_exit"]
            /\ UNCHANGED <<readers, resp>>
       ELSE /\ loc' = loc
            /\ readers' = readers \ {p}
            /\ resp' = [resp EXCEPT ![p] = Panicked]
            /\ pc' = [pc EXCEPT ![p] = "done"]
    /\ trace' = [trace EXCEPT ![p] = [Looked(p) EXCEPT !.resources = TRUE]]
    /\ UNCHANGED <<store, writers, req, serial>>

(* a result that takes an absent component for a failed validation *)
ComponentResult_AbsentAsInternal(l) ==
    IF l.not_found \/ l.internal_error
    THEN internal_err("Problem while validating state", 555)
    ELSE Ok(JsonString("ok"))

(* what dump_component returns *)
ComponentResult(l) ==
    IF l.not_found THEN not_found_err("Component not found")
    ELSE IF l.internal_error
         THEN internal_err("Problem while validating state", 555)
         ELSE Ok(JsonString("ok"))

(* dump_component: the read guard is dropped, then the response *)
dump_component_exit(p) ==
    /\ pc[p] = "dump_component_exit"
    /\ readers' = readers \ {p}
    /\ resp' = [resp EXCEPT ![p] = ComponentResult(loc[p])]
    /\ pc' = [pc EXCEPT ![p] = "done"]
    /\ UNCHANGED <<store, writers, req, loc, serial, trace>>

(* the response is sent and the worker takes the next request *)
respond(p) ==
    /\ pc[p] = "done"
    /\ pc' = [pc EXCEPT ![p] = "idle"]
    /\ req' = [req EXCEPT ![p] = NoRequest]
    /\ resp' = [resp EXCEPT ![p] = NoResponse]
    /\ loc' = [loc EXCEPT ![p] = NoLocals]
    /\ trace' = [trace EXCEPT ![p] = NoTrace]
    /\ UNCHANGED <<store, writers, readers, serial>>

Next ==
    \E p \in Procs :
        \/ rpc_run(p)
        \/ run_write(p)
        \/ run_closure(p)
        \/ run_commit(p)
        \/ run_exit(p)
        \/ rpc_show(p)
        \/ dump_package_read(p)
        \/ dump_package_closure(p)
        \/ dump_package_exit(p)
        \/ dump_component_read(p)
        \/ dump_component_closure(p)
        \/ dump_component_loop(p)
        \/ dump_component_resources(p)
        \/ dump_component_exit(p)
        \/ respond(p)

Spec == Init /\ [][Next]_vars

(* the steps a worker takes on its own, between acquisition and response *)
Step(p) ==
    \/ run_closure(p)
    \/ run_commit(p)
    \/ run_exit(p)
    \/ dump_package_closure(p)
    \/ dump_package_exit(p)
    \/ dump_component_closure(p)
    \/ dump_component_loop(p)
    \/ dump_component_resources(p)
    \/ dump_component_exit(p)

(* a worker thread that can step eventually steps, and the lock is fair: a *)
(* request that can acquire it again and again eventually acquires it      *)
FairSpec ==
    /\ Spec
    /\ \A p \in Procs :
        /\ WF_vars(Step(p))
        /\ SF_vars(run_write(p))
        /\ SF_vars(dump_package_read(p))
        /\ SF_vars(dump_component_read(p))

(* ------------------------------------------- one show over any ledger    *)
(* A show only reads the ledger, so what one show does with a given ledger *)
(* does not depend on the other workers.  The walk is therefore also       *)
(* explored by one worker over a family of ledgers: every lazy map id and  *)
(* vault id a blob can name exists, as in a ledger the engine wrote, while *)
(* any blob may be undecodable.                                            *)
MaxEntries == 2

Walker == 1

(* the entries a lazy map of component 1 can hold: a value naming map 1, a *)
(* key naming map 2, a value naming vault 2, a key naming vault 1 beside   *)
(* an undecodable value, an undecodable key beside a value naming map 2    *)
EntryMenu ==
    {<<Blob(1, <<>>, <<>>), Blob(2, <<1>>, <<>>)>>,
     <<Blob(3, <<2>>, <<>>), Blob(4, <<>>, <<>>)>>,
     <<Blob(5, <<>>, <<>>), Blob(6, <<>>, <<2>>)>>,
     <<Blob(7, <<>>, <<1>>), BadBlob>>,
     <<BadBlob, Blob(8, <<2>>, <<>>)>>}

MapContents == {m \in SUBSET EntryMenu : Cardinality(m) <= MaxEntries}

(* the state blob of component 1: undecodable, without references, naming  *)
(* map 1 and vault 1, naming map 1 twice and map 2                         *)
StateBlobs ==
    {BadBlob, Blob(9, <<>>, <<>>), Blob(9, <<1>>, <<1>>),
     Blob(9, <<1, 2, 1>>, <<>>)}

(* immutable and mutable data of non-fungible 1 *)
NfPayloads ==
    {<<Blob(5, <<>>, <<>>), Blob(6, <<>>, <<>>)>>,
     <<BadBlob, Blob(6, <<>>, <<>>)>>,
     <<Blob(5, <<>>, <<>>), BadBlob>>}

(* the bootstrap ledger with component 1 holding the given state and lazy  *)
(* maps, vault 2 holding non-fungibles 1 and 2, and non-fungible 1 holding *)
(* the given payload                                                       *)
WalkStore(state, m1, m2, nf) ==
    [Bootstrap EXCEPT
        !.components[1] =
            Some([package_address |-> Package(1),
                  blueprint_name |-> "System",
                  state |-> state]),
        !.lazy_maps[<<1, 1>>] = Some(m1),
        !.lazy_maps[<<1, 2>>] = Some(m2),
        !.vaults[<<1, 2>>] =
            Some([amount |-> 2, resource_address |-> ResourceDef(1),
                  total_supply |-> NonFungible(<<1, 2>>)]),
        !.non_fungibles[<<1, 1>>] =
            Some([immutable_data |-> nf[1], mutable_data |-> nf[2]])]

WalkStores ==
    {WalkStore(state, m1, m2, nf) :
        state \in StateBlobs, m1 \in MapContents, m2 \in MapContents,
        nf \in NfPayloads}

WalkInit ==
    /\ store \in WalkStores
    /\ writers = {}
    /\ readers = {}
    /\ pc = [p \in Procs |-> "idle"]
    /\ req = [p \in Procs |-> NoRequest]
    /\ resp = [p \in Procs |-> NoResponse]
    /\ loc = [p \in Procs |-> NoLocals]
    /\ serial = store
    /\ trace = [p \in Procs |-> NoTrace]

WalkNext ==
    \/ rpc_show(Walker)
    \/ dump_package_read(Walker)
    \/ dump_package_closure(Walker)
    \/ dump_package_exit(Walker)
    \/ dump_component_read(Walker)
    \/ dump_component_closure(Walker)
    \/ dump_component_loop(Walker)
    \/ dump_component_resources(Walker)
    \/ dump_component_exit(Walker)
    \/ respond(Walker)

WalkSpec == WalkInit /\ [][WalkNext]_vars

(* the worker thread that runs a show keeps running: each step of the      *)
(* handler that can be taken is eventually taken                           *)
WalkFairSpec == WalkSpec /\ WF_vars(WalkNext)

(* ------------------------------------------------------------ properties *)
IsRun(p) == req[p].method = "run" /\ IsSome(req[p].params)
IsShow(p) == req[p].method = "show" /\ IsSome(req[p].params)
Manifest(p) == Unwrap(req[p].params).manifest
Signers(p) == Unwrap(req[p].params).signers
ShowAddress(p) == Address_from_str(Unwrap(req[p].params).address)
Stepped(p) == pc'[p] # pc[p] \/ loc'[p] # loc[p]

(* C1: at most one request holds write access, no request holds read       *)
(* access while some request holds write access; several shows may hold    *)
(* read access together (C1_SharedRead is such a state).                   *)
C1_LockExclusion ==
    /\ Cardinality(writers) <= 1
    /\ writers # {} => readers = {}
    /\ \A p \in writers : req[p].method = "run"
    /\ \A p \in readers : req[p].method = "show"

C1_SharedRead ==
    \E p, q \in readers :
        /\ p # q
        /\ IsShow(p) /\ IsShow(q)
        /\ trace[p].seen # {} /\ trace[q].seen # {}
        /\ store # Bootstrap

(* C2: every lookup of a show finds the store as it was entirely before or *)
(* entirely after the transaction of any run, never with part of the       *)
(* writes of a transaction, and all lookups of one show find the same      *)
(* store.                                                                  *)
C2_NoTornRead ==
    \A p \in Procs :
        /\ \A o \in trace[p].seen : ~o.torn
        /\ \A o1, o2 \in trace[p].seen : o1.store = o2.store

C2_ShowRacesRun ==
    \E p, q \in Procs :
        /\ IsShow(p) /\ pc[p] = "dump_component_loop" /\ loc[p].i >= 2
        /\ trace[p].seen # {}
        /\ IsRun(q) /\ pc[q] = "run_write" /\ Writes(Manifest(q)) # <<>>
        /\ store # Bootstrap

(* C3: whenever no run holds write access the store is the result of       *)
(* applying the transactions of the runs one at a time in the order they   *)
(* obtained write access, and every lookup of a show finds the effects of  *)
(* all the runs whose write scope exited before it.                        *)
C3_Serialized ==
    /\ writers = {} => store = serial
    /\ \A p \in Procs : \A o \in trace[p].seen : o.store = o.serial

C3_TwoRunsThenShow ==
    \E p, q \in Procs :
        /\ p # q
        /\ IsRun(p) /\ Manifest(p) = "publish_a" /\ pc[p] = "done"
        /\ resp[p].ok
        /\ IsShow(q) /\ trace[q].seen # {}
        /\ \E o \in trace[q].seen :
               /\ o.store = ApplyPuts(ApplyPuts(Bootstrap, Writes("publish_b")),
                                      Writes("publish_a"))
               /\ o.store # ApplyPuts(Bootstrap, Writes("publish_b"))

(* C4: the store changes only in a step of a run that holds write access;  *)
(* a step of a show leaves the store unchanged and looks into the store    *)
(* only while the show holds read access.                                  *)
C4_GuardedAccess ==
    [][/\ store' # store =>
            \E p \in writers : IsRun(p) /\ Stepped(p) /\ pc[p] = "run_commit"
       /\ \A p \in Procs :
            req'[p].method = "show" /\ Stepped(p) =>
                /\ store' = store
                /\ \A o \in trace'[p].seen : o.guarded
                /\ trace'[p].seen # trace[p].seen => p \in readers]_vars

C4_ShowAfterWrite ==
    \E p \in Procs :
        /\ IsShow(p) /\ p \in readers
        /\ trace[p].seen # {}
        /\ store # Bootstrap

(* C5: a run with a signer that does not parse, at any position, returns   *)
(* the key-parse error, and a show of a malformed or ResourceDef address   *)
(* returns the parse error; neither ever acquires read or write access,    *)
(* looks into the store or changes it.                                     *)
BadSigner(p) ==
    IsRun(p) /\ \E k \in 1..Len(Signers(p)) :
                    ~IsSome(EcdsaPublicKey_from_str(Signers(p)[k]))

BadAddress(p) ==
    IsShow(p) /\ (~IsSome(ShowAddress(p))
                  \/ is_resource_def(Unwrap(ShowAddress(p))))

C5_ShapeRejected ==
    [][\A p \in Procs :
        /\ BadSigner(p)' => resp'[p] = ecdsa_err
        /\ BadAddress(p)' => resp'[p] = parse_err
        /\ BadSigner(p)' \/ BadAddress(p)' =>
            /\ pc'[p] = "done"
            /\ ~trace'[p].acquired
            /\ trace'[p].seen = {}
            /\ p \notin writers' \cup readers'
            /\ Stepped(p) => store' = store]_vars

C5_BothRejected ==
    \E p, q \in Procs :
        /\ BadSigner(p) /\ IsSome(EcdsaPublicKey_from_str(Signers(p)[1]))
        /\ resp[p] = ecdsa_err
        /\ BadAddress(q) /\ IsSome(ShowAddress(q)) /\ resp[q] = parse_err
        /\ store # Bootstrap

(* C6: a run whose manifest does not compile returns the compile error,    *)
(* never invokes the engine, changes nothing in the store (which, when the *)
(* write guard is dropped, is as it was when the guard was taken) and      *)
(* holds no write access once it has returned.                             *)
NoCompile(p) ==
    /\ IsRun(p) /\ ~BadSigner(p)
    /\ ~IsSome(transaction_manifest_compile(Manifest(p)))

C6_CompileFailure ==
    [][\A p \in Procs :
        NoCompile(p)' =>
            /\ ~trace'[p].engine
            /\ Stepped(p) => store' = store
            /\ pc'[p] = "done" =>
                /\ resp'[p] = transaction_compile_err
                /\ p \notin writers'
            /\ pc'[p] = "done" /\ pc[p] # "done" =>
                store' = Unwrap(trace[p].pre)]_vars

C6_CompileErrorReturned ==
    \E p \in Procs :
        /\ NoCompile(p) /\ pc[p] = "done"
        /\ trace[p].acquired
        /\ resp[p] = transaction_compile_err
        /\ store # Bootstrap

(* C7: the seven error kinds carry pairwise distinct numeric codes: two    *)
(* responses of different error kinds never carry the same code.           *)
ErrorKindNames ==
    {"parse_err", "ecdsa_err", "not_found_err", "internal_err",
     "transaction_compile_err", "transaction_execution_error",
     "transaction_validation_err"}

C7_DistinctCodes ==
    \A p, q \in Procs :
        /\ resp[p].kind \in ErrorKindNames
        /\ resp[q].kind \in ErrorKindNames
        /\ resp[p].kind # resp[q].kind
        => resp[p].code # resp[q].code

(* C8, as claimed: after a successful compile, run reports the execution   *)
(* error exactly when the engine call itself failed and the validation     *)
(* error exactly when the transaction ran and its outcome was a rejection. *)
Compiled(p) ==
    /\ IsRun(p) /\ ~BadSigner(p)
    /\ IsSome(transaction_manifest_compile(Manifest(p)))

EngineOutcome(p) ==
    executor_run(Unwrap(transaction_manifest_compile(Manifest(p))))

EngineFailed(p) == ~IsSome(EngineOutcome(p))

OutcomeRejected(p) ==
    IsSome(EngineOutcome(p)) /\ ~Unwrap(EngineOutcome(p)).result

C8_AsClaimed ==
    \A p \in Procs :
        Compiled(p) /\ pc[p] = "done" =>
            /\ resp[p] = transaction_execution_error <=> EngineFailed(p)
            /\ resp[p] = transaction_validation_err <=> OutcomeRejected(p)

(* C8, amended: after a successful compile, run reports the validation     *)
(* error (666) exactly when the engine call itself failed, no receipt      *)
(* produced, and the execution error (33) exactly when the transaction ran *)
(* and its outcome was a rejection; the two never share an error kind.     *)
C8_EngineErrors ==
    \A p \in Procs :
        Compiled(p) /\ pc[p] = "done" =>
            /\ resp[p] = transaction_validation_err <=> EngineFailed(p)
            /\ resp[p] = transaction_execution_error <=> OutcomeRejected(p)
            /\ resp[p].ok <=> ~EngineFailed(p) /\ ~OutcomeRejected(p)
            /\ trace[p].engine

C8_BothErrors ==
    \E p, q \in Procs :
        /\ Compiled(p) /\ pc[p] = "done" /\ EngineFailed(p)
        /\ resp[p].code = 666
        /\ Compiled(q) /\ pc[q] = "done" /\ OutcomeRejected(q)
        /\ resp[q].code = 33

(* C9: for a component that is present and whose whole walk decodes        *)
(* without error, show returns a success response that carries the         *)
(* snapshot: the metadata, the state string, the entries of every          *)
(* discovered collection and the holdings of every discovered vault.       *)
CleanWalk(p) ==
    /\ IsShow(p) /\ pc[p] = "done"
    /\ IsSome(ShowAddress(p)) /\ is_component(Unwrap(ShowAddress(p)))
    /\ resp[p].kind # "panic"
    /\ ~loc[p].not_found /\ ~loc[p].internal_error

C9_Snapshot ==
    \A p \in Procs :
        CleanWalk(p) =>
            /\ resp[p].ok
            /\ resp[p].value.type = "Object"
            /\ resp[p].value.content =
                   <<[snapshot |-> loc[p].return_vec,
                      lazy_maps |-> loc[p].lazy_maps]>>

(* C10: show of a Package address returns not-found when the package is    *)
(* absent and when it is present with zero code size, and the success      *)
(* response with the code size when the code size is greater than zero.    *)
C10_PackageShow ==
    \A p \in Procs :
        /\ IsShow(p) /\ pc[p] = "done"
        /\ IsSome(ShowAddress(p)) /\ is_package(Unwrap(ShowAddress(p)))
        => \A o \in trace[p].seen :
            LET package == get_package(o.store, Unwrap(ShowAddress(p))) IN
            IF IsSome(package) /\ Unwrap(package) > 0
            THEN resp[p] = Ok(JsonObject([bytes |-> Unwrap(package)]))
            ELSE /\ resp[p] = not_found_err("Package not found")
                 /\ resp[p].code = 1

C10_EmptyAndPresent ==
    \E p, q \in Procs :
        /\ IsShow(p) /\ pc[p] = "done" /\ resp[p].kind = "not_found_err"
        /\ \E o \in trace[p].seen :
               get_package(o.store, Unwrap(ShowAddress(p))) = Some(0)
        /\ IsShow(q) /\ pc[q] = "done" /\ resp[q].ok
        /\ \E o \in trace[q].seen :
               get_package(o.store, Unwrap(ShowAddress(q))) = Some(2)

(* C11: show of a well-formed Component address that is not in the store   *)
(* returns the not-found error, server code 1, never the internal-error    *)
(* class 555, and hands nothing to validate_data, get_lazy_map or          *)
(* dump_resources.                                                         *)
ComponentShow(p) ==
    IsShow(p) /\ IsSome(ShowAddress(p)) /\ is_component(Unwrap(ShowAddress(p)))

Target(p) == get_component(store, Unwrap(ShowAddress(p)))

C11_AbsentComponent ==
    \A p \in Procs :
        /\ ComponentShow(p) /\ ~IsSome(Target(p))
        /\ pc[p] \in {"dump_component_loop", "dump_component_exit", "done"}
        => /\ pc[p] # "dump_component_loop"
           /\ ~trace[p].decoded
           /\ trace[p].fetched = <<>>
           /\ ~trace[p].resources
           /\ loc[p].return_vec = <<>>
           /\ pc[p] = "done" =>
                /\ resp[p].kind = "not_found_err"
                /\ resp[p].code = 1
                /\ resp[p].code # 555
                /\ resp[p].message = "Component not found"

C11_AbsentReturned ==
    /\ ComponentShow(Walker) /\ ~IsSome(Target(Walker))
    /\ pc[Walker] = "done"
    /\ trace[Walker].seen # {}
    /\ resp[Walker].code = 1

(* C12: on a successful run the outputs list has the length and the order  *)
(* of the engine's outputs, and the packages, components and resource_defs *)
(* lists are pairwise disjoint, each keeps the relative order of the new   *)
(* entities, and together they hold every new entity exactly as many times *)
(* as the engine emitted it.                                               *)
Count(seq, x) == Cardinality({k \in 1..Len(seq) : seq[k] = x})

Restrict(seq, set) == SelectSeq(seq, LAMBDA x : x \in set)

RunSucceeded(p) == Compiled(p) /\ pc[p] = "done" /\ resp[p].ok

C12_ReceiptMapping ==
    \A p \in Procs :
        RunSucceeded(p) =>
            LET receipt == Unwrap(EngineOutcome(p))
                emitted == ToStrings(receipt.new_entities)
                obj == resp[p].value.content[1]
                all == obj.packages \o obj.components \o obj.resource_defs
            IN  /\ Len(obj.outputs) = Len(receipt.outputs)
                /\ \A k \in 1..Len(receipt.outputs) :
                       obj.outputs[k] = format_value(receipt.outputs[k])
                /\ SeqToSet(obj.packages) \cap SeqToSet(obj.components) = {}
                /\ SeqToSet(obj.packages) \cap SeqToSet(obj.resource_defs) = {}
                /\ SeqToSet(obj.components) \cap SeqToSet(obj.resource_defs)
                       = {}
                /\ obj.packages = Restrict(emitted, SeqToSet(obj.packages))
                /\ obj.components = Restrict(emitted, SeqToSet(obj.components))
                /\ obj.resource_defs =
                       Restrict(emitted, SeqToSet(obj.resource_defs))
                /\ \A s \in SeqToSet(emitted) \cup SeqToSet(all) :
                       Count(all, s) = Count(emitted, s)
                /\ \A s \in SeqToSet(obj.packages) :
                       is_package(Unwrap(Address_from_str(s)))
                /\ \A s \in SeqToSet(obj.components) :
                       is_component(Unwrap(Address_from_str(s)))
                /\ \A s \in SeqToSet(obj.resource_defs) :
                       is_resource_def(Unwrap(Address_from_str(s)))

C12_MixedEntities ==
    \E p \in Procs :
        /\ RunSucceeded(p)
        /\ Len(resp[p].value.content[1].outputs) = 2
        /\ Len(resp[p].value.content[1].components) = 3
        /\ Len(resp[p].value.content[1].packages) = 1
        /\ Len(resp[p].value.content[1].resource_defs) = 1

(* C13: during one show of a component every distinct collection id is    *)
(* handed to get_lazy_map and decoded at most once, whatever the shape of  *)
(* the graph: a self cycle, a mutual cycle, or a collection named by       *)
(* several parents; a collection that names itself gives one decoded entry.*)
C13_FetchedOnce ==
    \A p \in Procs :
        ComponentShow(p) =>
            /\ \A mid \in Mids : Count(trace[p].fetched, mid) <= 1
            /\ SeqToSet(trace[p].fetched) = loc[p].maps_visited
            /\ Len(loc[p].lazy_maps) <= Len(trace[p].fetched)

(* map 1 names itself and map 2, map 2 names map 1, the state names map 1  *)
(* twice and map 2: the queue holds each id several times, each map was    *)
(* decoded once                                                            *)
C13_CyclesWalked ==
    /\ ComponentShow(Walker) /\ pc[Walker] = "done"
    /\ resp[Walker].ok
    /\ Count(loc[Walker].queue, 1) >= 4
    /\ Count(loc[Walker].queue, 2) >= 2
    /\ trace[Walker].fetched = <<1, 2>>
    /\ Len(loc[Walker].lazy_maps) = 2

(* C14: the collection traversal of a show terminates on every ledger,    *)
(* cyclic ones included: the queue grows only in an iteration that visits  *)
(* its collection for the first time, and a show that is in the loop       *)
(* eventually leaves it with the cursor at the end of the queue.           *)
C14_Terminates ==
    /\ [][\A p \in Procs :
            pc[p] = "dump_component_loop" /\ loc'[p].queue # loc[p].queue
            => /\ loc[p].i < Len(loc[p].queue)
               /\ loc[p].queue[loc[p].i + 1] \notin loc[p].maps_visited
               /\ loc'[p].maps_visited =
                      loc[p].maps_visited \cup {loc[p].queue[loc[p].i + 1]}]_vars
    /\ (pc[Walker] = "dump_component_loop")
           ~> (/\ pc[Walker] # "dump_component_loop"
               /\ loc[Walker].i = Len(loc[Walker].queue))

C14_CycleLeft ==
    /\ ComponentShow(Walker) /\ pc[Walker] = "dump_component_exit"
    /\ loc[Walker].i = Len(loc[Walker].queue)
    /\ Len(loc[Walker].queue) > Cardinality(loc[Walker].maps_visited)
    /\ loc[Walker].maps_visited = Mids

(* C15: every run or show that starts returns a response, and on every    *)
(* path out of the handler it has released the ledger access it acquired.  *)
(* Stated on the handler's end: a handler that has ended has produced a    *)
(* response and holds neither read nor write access.                       *)
Ended(p) == pc[p] = "done"

C15_RespondsAndReleases ==
    \A p \in Procs :
        Ended(p) =>
            /\ resp[p].kind \notin {"panic", "none"}
            /\ p \notin readers \cup writers

(* under the fair lock a request that has started ends and has released    *)
(* its access; this leaves open whether it ended with a response           *)
RequestsEnd ==
    \A p \in Procs :
        (pc[p] # "idle") ~> (Ended(p) /\ p \notin readers \cup writers)

(* C16: when every decode of the walk succeeds, the set of collections     *)
(* decoded is exactly the set reachable from the state through the         *)
(* references of keys and values, and the discovered vaults are exactly    *)
(* the vault ids named by the state or by a key or value of a reachable    *)
(* collection; both are empty when the state names none.                   *)
Entries(p, mid) == Unwrap(get_lazy_map(store, Unwrap(ShowAddress(p)), mid))

BlobsOf(p, mid) == UNION {{e[1], e[2]} : e \in Entries(p, mid)}

MapsNamed(blobs) ==
    UNION {IF b.valid THEN SeqToSet(b.lazy_maps) ELSE {} : b \in blobs}

VaultsNamed(blobs) ==
    UNION {IF b.valid THEN SeqToSet(b.vaults) ELSE {} : b \in blobs}

RECURSIVE Closure(_, _)
Closure(p, mids) ==
    LET more == mids \cup UNION {MapsNamed(BlobsOf(p, m)) : m \in mids} IN
    IF more = mids THEN mids ELSE Closure(p, more)

StateBlob(p) == Unwrap(Target(p)).state

Reachable(p) == Closure(p, MapsNamed({StateBlob(p)}))

LoopLeft(p) ==
    /\ ComponentShow(p) /\ IsSome(Target(p))
    /\ \/ pc[p] \in {"dump_component_exit", "done"}
       \/ pc[p] = "dump_component_loop" /\ loc[p].i >= Len(loc[p].queue)

AllMapsDecode(p) ==
    /\ StateBlob(p).valid
    /\ \A m \in Reachable(p) : \A b \in BlobsOf(p, m) : b.valid

C16_ExactlyReachable ==
    \A p \in Procs :
        LoopLeft(p) /\ AllMapsDecode(p) =>
            /\ SeqToSet(trace[p].fetched) = Reachable(p)
            /\ loc[p].maps_visited = Reachable(p)
            /\ Len(loc[p].lazy_maps) = Cardinality(Reachable(p))
            /\ loc[p].vaults_found =
                   VaultsNamed({StateBlob(p)}) \cup
                   UNION {VaultsNamed(BlobsOf(p, m)) : m \in Reachable(p)}
            /\ MapsNamed({StateBlob(p)}) = {} => loc[p].maps_visited = {}
            /\ VaultsNamed({StateBlob(p)}) = {}
               /\ MapsNamed({StateBlob(p)}) = {} => loc[p].vaults_found = {}

(* map 2 is reached only through a key of map 1 and vault 2 only through a *)
(* value of map 1                                                          *)
C16_ReachedThroughKey ==
    /\ LoopLeft(Walker) /\ AllMapsDecode(Walker)
    /\ pc[Walker] = "dump_component_exit"
    /\ MapsNamed({StateBlob(Walker)}) = {1}
    /\ loc[Walker].maps_visited = {1, 2}
    /\ loc[Walker].vaults_found = {1, 2}
    /\ Entries(Walker, 2) = {}

(* the part of C17 that is about the loop alone: after a decode failure    *)
(* inside one collection every queued id is still dequeued and visited,    *)
(* and the internal-error flag is set and stays set                        *)
SomeMapFailed(p) ==
    \E m \in loc[p].maps_visited : \E b \in BlobsOf(p, m) : ~b.valid

WalkContinues ==
    \A p \in Procs :
        LoopLeft(p) /\ StateBlob(p).valid =>
            /\ SeqToSet(loc[p].queue) = loc[p].maps_visited
            /\ SeqToSet(trace[p].fetched) = loc[p].maps_visited
            /\ SomeMapFailed(p) <=> loc[p].internal_error

(* C17: a key or value decode failure inside one collection does not stop  *)
(* the traversal: every id still in the queue is dequeued and, if not yet  *)
(* visited, decoded; the internal-error flag is never cleared, and the     *)
(* show ends with the internal error whenever a decode failed in the walk. *)
C17_EndsWithInternalError ==
    \A p \in Procs :
        LoopLeft(p) /\ StateBlob(p).valid =>
            /\ SeqToSet(loc[p].queue) = loc[p].maps_visited
            /\ SomeMapFailed(p) => loc[p].internal_error
            /\ Ended(p) /\ SomeMapFailed(p) =>
                   resp[p] = internal_err("Problem while validating state", 555)

(* C18: every collection id named by a successfully decoded key or value   *)
(* of a visited collection is enqueued, and every vault id so named is in  *)
(* the discovered-vault set, also when another key or value of the same    *)
(* collection fails to decode.                                             *)
C18_ReferencesKept ==
    \A p \in Procs :
        LoopLeft(p) /\ StateBlob(p).valid =>
            \A m \in loc[p].maps_visited :
                /\ MapsNamed(BlobsOf(p, m)) \subseteq SeqToSet(loc[p].queue)
                /\ VaultsNamed(BlobsOf(p, m)) \subseteq loc[p].vaults_found

(* the part of C19 that is about the traversal: a state blob that does not *)
(* decode leads to no get_lazy_map, no dump_resources, and the internal    *)
(* error 555                                                               *)
StateFailed(p) ==
    ComponentShow(p) /\ IsSome(Target(p)) /\ ~StateBlob(p).valid /\ Ended(p)

StateFailureSkipsWalk ==
    \A p \in Procs :
        StateFailed(p) =>
            /\ trace[p].fetched = <<>>
            /\ ~trace[p].resources
            /\ resp[p] = internal_err("Problem while validating state", 555)
            /\ Len(loc[p].return_vec) = 1

(* C19: when the component exists but its state blob fails to decode, show *)
(* performs no collection lookup and no vault lookup, reports the internal *)
(* error class, never not-found, and its result still carries the          *)
(* metadata discovered before the failure.                                 *)
C19_MetadataReturned ==
    \A p \in Procs :
        StateFailed(p) =>
            /\ trace[p].fetched = <<>>
            /\ ~trace[p].resources
            /\ resp[p].kind = "internal_err"
            /\ resp[p].code = 555
            /\ resp[p].value.type = "Object"
            /\ resp[p].value.content = <<[snapshot |-> loc[p].return_vec]>>

(* C20: while a vault with non-fungible assets is resolved, a decode       *)
(* failure of one asset's immutable or mutable payload is recorded as an   *)
(* internal error; the request ends with the internal-error response, not  *)
(* with an abort.                                                          *)
PayloadFails(resource_address, key) ==
    LET nf == Unwrap(get_non_fungible(store, resource_address, key)) IN
    ~nf.immutable_data.valid \/ ~nf.mutable_data.valid

BadPayloadFound(p) ==
    \E vid \in loc[p].vaults_found :
        LET vault == Unwrap(get_vault(store, Unwrap(ShowAddress(p)), vid)) IN
        \E k \in 1..Len(vault.total_supply.keys) :
            PayloadFails(vault.resource_address, vault.total_supply.keys[k])

C20_PayloadFailureRecorded ==
    \A p \in Procs :
        LoopLeft(p) /\ StateBlob(p).valid /\ Ended(p) /\ BadPayloadFound(p) =>
            /\ trace[p].resources
            /\ resp[p].kind # "panic"
            /\ resp[p] = internal_err("Problem while validating state", 555)

(* without a failing payload among the discovered vaults the show ends     *)
(* with a response                                                         *)
AbortsOnlyOnPayload ==
    \A p \in Procs :
        LoopLeft(p) /\ StateBlob(p).valid /\ Ended(p) /\ ~BadPayloadFound(p) =>
            resp[p].kind \in {"Ok", "internal_err"}

====
